---- MODULE Spec2Model ----
(***************************************************************************)
(* State-machine model of server.js (Jinny): the per-connection            *)
(* conversation contexts kept in the process-wide map userContexts, the    *)
(* socket handlers (transcript, reset-context, load-context, disconnect),  *)
(* the delayed eviction timer, the hourly cleanup interval, the provider   *)
(* calls in flight and handleAIError.                                      *)
(*                                                                         *)
(* Text is a sequence of one-character strings, so that String.trim() is   *)
(* computed and not assumed.  Time is Date.now() in milliseconds.          *)
(***************************************************************************)
EXTENDS Integers, Sequences, FiniteSets, TLC

VARIABLES
    userContexts,   \* the Map userContexts: socket id -> context (or Absent)
    now,            \* Date.now()
    conn,           \* each socket id: "new", "open" or "closed"
    evictTimer,     \* the setTimeout armed by 'disconnect': due time or NoTimer
    sweepDue,       \* when the setInterval cleanup is next due
    pending,        \* provider calls awaited by transcript handlers, each
                    \* with the handler's data.final and the request it passed
    emitted,        \* the events the last step emitted to clients
    lastEvent,      \* the event the last step handled
    pushed          \* history: the turns pushed onto each live context

vars == <<userContexts, now, conn, evictTimer, sweepDue, pending, emitted,
          lastEvent, pushed>>

----------------------------------------------------------------------------
(* Bounds of the model *)

\* appends allowed to one context in Spec
MaxAppends == 2
\* provider calls in flight at once
MaxPending == 1
\* provider calls in flight at once when transcripts overlap (SpecRace)
RaceCalls == 2
\* milliseconds the clock may advance past a whole hour
MaxMs == 1
\* appends allowed to the context in SpecWindow
WindowAppends == 12

----------------------------------------------------------------------------
(* Program constants *)

\* 3600000 ms: the eviction delay, the cleanup period and the staleness age
HOUR == 3600000
\* context.length > 11: the system turn and 10 others
WindowSize == 11

Sockets == {"s1", "s2"}

NoTimer == -1
\* the characters String.prototype.trim strips: white space (tab, vertical
\* tab, form feed, space, U+00A0, U+FEFF, the space separators) and line
\* terminators (line feed, carriage return, U+2028, U+2029).  The last four
\* strings hold U+000B, U+00A0, U+FEFF and U+1680 themselves; U+2000..U+200A,
\* U+2028, U+2029, U+202F, U+205F and U+3000 cannot be written in a string
\* of this language and occur in no text of the model.
Whitespace ==
    {" ", "\t", "\n", "\r", "\f", "", " ", "﻿", " "}

SystemPrompt == <<"You are Jinny, a warm and perceptive AI companion. ...">>
SystemTurn == [role |-> "system", content |-> SystemPrompt]

DefaultModel == "llama-3.1-70b-versatile"

AI_MODELS ==
    ( "gpt-3.5-turbo-16k" :>
          [provider |-> "openai", maxTokens |-> 700, temperature |-> "0.7"] )
    @@
    ( "llama-3.1-70b-versatile" :>
          [provider |-> "groq", maxTokens |-> 1024, temperature |-> "1"] )

\* names every plain object inherits from Object.prototype
PrototypeKeys ==
    {"constructor", "hasOwnProperty", "isPrototypeOf", "propertyIsEnumerable",
     "toLocaleString", "toString", "valueOf", "__proto__",
     "__defineGetter__", "__defineSetter__",
     "__lookupGetter__", "__lookupSetter__"}

\* AI_MODELS[selectedModel]: an own entry, an inherited member, or undefined
LookupModel(selectedModel) ==
    IF selectedModel \in DOMAIN AI_MODELS
    THEN [kind |-> "config", config |-> AI_MODELS[selectedModel]]
    ELSE IF selectedModel \in PrototypeKeys
         THEN [kind |-> "inherited"]
         ELSE [kind |-> "undefined"]

----------------------------------------------------------------------------
(* Text *)

RECURSIVE TrimStart(_)
TrimStart(s) ==
    IF s = <<>> THEN s
    ELSE IF Head(s) \in Whitespace THEN TrimStart(Tail(s)) ELSE s

RECURSIVE TrimEnd(_)
TrimEnd(s) ==
    IF s = <<>> THEN s
    ELSE IF s[Len(s)] \in Whitespace
         THEN TrimEnd(SubSeq(s, 1, Len(s) - 1))
         ELSE s

\* a trim that strips spaces only
TrimSpacesOnly(s) ==
    LET RECURSIVE L(_), R(_)
        L(x) == IF x = <<>> THEN x
                ELSE IF Head(x) = " " THEN L(Tail(x)) ELSE x
        R(x) == IF x = <<>> THEN x
                ELSE IF x[Len(x)] = " " THEN R(SubSeq(x, 1, Len(x) - 1)) ELSE x
    IN  R(L(s))

\* String.prototype.trim
trim(s) == TrimEnd(TrimStart(s))

\* data.final && data.final.trim()
HasText(data) ==
    /\ "final" \in DOMAIN data
    /\ data.final # <<>>
    /\ trim(data.final) # <<>>

----------------------------------------------------------------------------
(* The context store *)

Absent == [kind |-> "absent"]
ArrayCtx(items) == [kind |-> "array", items |-> items]
ObjectCtx(items, prefs) ==
    [kind |-> "object", items |-> items, userPreferences |-> prefs]

\* a delete that leaves non-array contexts in place
MapDeleteArraysOnly(store, key) ==
    IF store[key].kind = "array" THEN [store EXCEPT ![key] = Absent] ELSE store

\* a delete that empties the whole map, as userContexts.clear() does
MapClear(store, key) == [k \in DOMAIN store |-> Absent]

\* userContexts.delete(key)
MapDelete(store, key) == [store EXCEPT ![key] = Absent]

\* Array.prototype.splice(start, deleteCount), start a 0-based index
Splice(seq, start, deleteCount) ==
    SubSeq(seq, 1, start) \o SubSeq(seq, start + deleteCount + 1, Len(seq))

\* a trim that drops the newest turns instead of the oldest
TrimWindowKeepOldest(context) ==
    IF Len(context) > WindowSize THEN SubSeq(context, 1, WindowSize) ELSE context

\* if (context.length > 11) context.splice(1, context.length - 11)
TrimWindow(context) ==
    IF Len(context) > WindowSize
    THEN Splice(context, 1, Len(context) - WindowSize)
    ELSE context

MessageWithTime(role, message, t) ==
    [role |-> role, content |-> message, timestamp |-> t]

\* context.push throws a TypeError when the stored value is not an array
PushThrows(store, userId) == store[userId].kind = "object"

\* manageConversationHistory, when it does not throw: the store it leaves
manageConversationHistory(store, userId, message, role, t) ==
    LET seeded == IF store[userId] = Absent
                  THEN [store EXCEPT ![userId] = ArrayCtx(<<SystemTurn>>)]
                  ELSE store
        context == seeded[userId].items
    IN  [seeded EXCEPT ![userId] =
            ArrayCtx(TrimWindow(Append(context, MessageWithTime(role, message, t))))]

\* history: forget the pushes of contexts that are gone
Forget(log, store) ==
    [s \in Sockets |-> IF store[s] = Absent THEN <<>> ELSE log[s]]

----------------------------------------------------------------------------
(* Errors and outbound events *)

NoStatus == 0
NoCode == "none"

TypeErrorPush ==
    [status |-> NoStatus, code |-> NoCode,
     message |-> "context.push is not a function"]
TypeErrorProvider ==
    [status |-> NoStatus, code |-> NoCode,
     message |-> "Cannot read properties of undefined (reading 'provider')"]
TypeErrorChoices ==
    [status |-> NoStatus, code |-> NoCode,
     message |-> "Cannot read properties of undefined (reading '0')"]
TypeErrorMessage ==
    [status |-> NoStatus, code |-> NoCode,
     message |-> "Cannot read properties of undefined (reading 'message')"]
InvalidGroqResponse ==
    [status |-> NoStatus, code |-> NoCode,
     message |-> "Invalid response from GROQ API"]

GenericMessage == "An error occurred while processing your request."
RateLimitMessage == "Rate limit exceeded. Please try again in a moment."
ConnectMessage == "Unable to connect to AI service. Please try again later."

\* an error handler that looks at error.code before error.response.status
HandleAIErrorCodeFirst(error, socket) ==
    [to |-> socket, event |-> "error",
     payload |-> [message |-> IF error.code = "ECONNREFUSED" THEN ConnectMessage
                              ELSE IF error.status = 429
                                   THEN RateLimitMessage
                                   ELSE GenericMessage,
                  details |-> error.message]]

\* handleAIError: the event socket.emit('error', ...) sends
handleAIError(error, socket) ==
    [to |-> socket, event |-> "error",
     payload |-> [message |-> IF error.status = 429 THEN RateLimitMessage
                              ELSE IF error.code = "ECONNREFUSED"
                                   THEN ConnectMessage
                                   ELSE GenericMessage,
                  details |-> error.message]]

GptResponse(socket, text, model) ==
    [to |-> socket, event |-> "gpt-response",
     payload |-> [text |-> text, model |-> model]]

ContextReset(socket) ==
    [to |-> socket, event |-> "context-reset",
     payload |-> [message |-> "Conversation context has been reset"]]

----------------------------------------------------------------------------
(* Inputs *)

\* payloads of 'transcript': {final?, model?}, or no payload at all
Hi == <<" ", "h", "i", "\t">>
TranscriptInputs ==
    { [undefined |-> TRUE],
      [model |-> "llama-3.1-70b-versatile"],
      [final |-> <<>>, model |-> "gpt-3.5-turbo-16k"],
      [final |-> <<" ", "\n", "\t">>, model |-> "llama-3.1-70b-versatile"],
      [final |-> Hi],
      [final |-> Hi, model |-> ""],
      [final |-> Hi, model |-> "llama-3.1-70b-versatile"],
      [final |-> Hi, model |-> "gpt-3.5-turbo-16k"],
      [final |-> Hi, model |-> "gpt-4"],
      [final |-> Hi, model |-> "toString"] }

\* payloads of 'transcript' in SpecWindow: two texts, the default model
WindowInputs ==
    { [final |-> <<"a">>], [final |-> <<"b", " ">>] }

\* payloads of 'transcript' in SpecTimers: one text, the default model
TimerInputs == { [final |-> Hi] }

\* payloads of 'load-context'
LoadInputs ==
    { [jsType |-> "undefined"],
      [jsType |-> "null"],
      [jsType |-> "string", value |-> "dark"],
      [jsType |-> "object", value |-> "theme=dark"] }

\* what a provider call can come back with
RawErrors ==
    { [status |-> 429, code |-> NoCode, message |-> "quota exceeded for org-1"],
      [status |-> 429, code |-> NoCode, message |-> "quota exceeded for org-2"],
      [status |-> 500, code |-> NoCode, message |-> "quota exceeded for org-1"],
      [status |-> NoStatus, code |-> "ECONNREFUSED",
       message |-> "connect ECONNREFUSED 127.0.0.1:443"],
      [status |-> 429, code |-> "ECONNREFUSED",
       message |-> "connect ECONNREFUSED 127.0.0.1:443"] }
Reply == <<"h", "i", " ", "t", "h", "e", "r", "e">>
Responses ==
    { [kind |-> "ok", text |-> Reply],
      [kind |-> "no_choices"],
      [kind |-> "empty_choices"] }
    \cup { [kind |-> "rejected", error |-> e] : e \in RawErrors }

TickSteps == {1, HOUR}

\* two texts and both providers, for transcripts that overlap
RaceInputs ==
    { [final |-> <<"a">>, model |-> "gpt-3.5-turbo-16k"],
      [final |-> <<" ", "b">>, model |-> "gpt-3.5-turbo-16k"],
      [final |-> <<"a">>] }
RaceResponses ==
    { [kind |-> "ok", text |-> Reply],
      [kind |-> "rejected",
       error |-> [status |-> 500, code |-> NoCode,
                  message |-> "quota exceeded for org-1"]] }

----------------------------------------------------------------------------
(* Provider calls *)

\* a handler that ignores data.model
SelectedModelIgnoresPayload(data) == DefaultModel

\* data.model || 'llama-3.1-70b-versatile'
SelectedModel(data) ==
    IF "model" \in DOMAIN data /\ data.model # "" THEN data.model ELSE DefaultModel

\* messages.map(msg => ({role: msg.role, content: msg.content}))
MapRoleContent(messages) ==
    [i \in 1..Len(messages) |->
        [role |-> messages[i].role, content |-> messages[i].content]]

\* the request groq.chat.completions.create is called with
GroqRequest(messages, modelConfig) ==
    [messages |-> MapRoleContent(messages),
     model |-> "llama-3.1-70b-versatile",
     temperature |-> modelConfig.temperature,
     max_tokens |-> modelConfig.maxTokens,
     top_p |-> "1", stream |-> FALSE]

\* the request openai.chat.completions.create is called with; an inherited
\* member has no temperature and no maxTokens, and JSON drops undefined
OpenAIRequest(messages, selectedModel, looked) ==
    IF looked.kind = "config"
    THEN [messages |-> messages, model |-> selectedModel,
          temperature |-> looked.config.temperature,
          max_tokens |-> looked.config.maxTokens,
          presence_penalty |-> "0.6", frequency_penalty |-> "0.3",
          top_p |-> "0.9", stream |-> FALSE]
    ELSE [messages |-> messages, model |-> selectedModel,
          presence_penalty |-> "0.6", frequency_penalty |-> "0.3",
          top_p |-> "0.9", stream |-> FALSE]

\* modelConfig.provider === 'groq'
IsGroq(looked) == looked.kind = "config" /\ looked.config.provider = "groq"

\* the call a transcript handler awaits.  handleGroqResponse passes a fresh
\* array; the OpenAI branch passes the context array itself, so until the
\* client library has serialized the request (live) its messages are the
\* array stored in userContexts, whatever is pushed onto it meanwhile
ProviderCall(socket, final, messages, selectedModel, looked) ==
    IF IsGroq(looked)
    THEN [sock |-> socket, final |-> final, model |-> selectedModel,
          provider |-> "groq", live |-> FALSE,
          request |-> GroqRequest(messages, looked.config)]
    ELSE [sock |-> socket, final |-> final, model |-> selectedModel,
          provider |-> "openai", live |-> TRUE,
          request |-> OpenAIRequest(messages, selectedModel, looked)]

\* the calls of userId whose request still is the stored context array
LiveCalls(calls, userId) ==
    {i \in 1..Len(calls) : calls[i].sock = userId /\ calls[i].live}

\* context.push and context.splice act on the array the live requests hold:
\* the requests in seen are serialized after the push, the others before it
Mutated(calls, userId, seen, items) ==
    [i \in 1..Len(calls) |->
        IF i \in seen
        THEN [calls[i] EXCEPT !.request.messages = items]
        ELSE IF i \in LiveCalls(calls, userId)
             THEN [calls[i] EXCEPT !.live = FALSE]
             ELSE calls[i]]

\* a context array that is deleted or replaced in the map is pushed onto no
\* more: the requests that hold it keep what it has
Detached(calls, store) ==
    [i \in 1..Len(calls) |->
        IF calls[i].live /\ store[calls[i].sock].kind # "array"
        THEN [calls[i] EXCEPT !.live = FALSE]
        ELSE calls[i]]

\* an adapter that reads the reply with optional chaining,
\* completion.choices?.[0]?.message?.content, and returns what it finds
OutcomeOptionalChaining(call, resp) ==
    IF resp.kind = "rejected" THEN [ok |-> FALSE, error |-> resp.error]
    ELSE IF resp.kind = "ok" THEN [ok |-> TRUE, text |-> resp.text]
    ELSE [ok |-> TRUE, text |-> <<>>]

\* what the awaited call yields to the handler: a text or a thrown error
Outcome(call, resp) ==
    IF resp.kind = "rejected" THEN [ok |-> FALSE, error |-> resp.error]
    ELSE IF resp.kind = "ok" THEN [ok |-> TRUE, text |-> resp.text]
    ELSE IF call.provider = "groq"
         THEN [ok |-> FALSE, error |-> InvalidGroqResponse]
         ELSE IF resp.kind = "no_choices"
              THEN [ok |-> FALSE, error |-> TypeErrorChoices]
              ELSE [ok |-> FALSE, error |-> TypeErrorMessage]

RemoveAt(seq, i) == SubSeq(seq, 1, i - 1) \o SubSeq(seq, i + 1, Len(seq))

----------------------------------------------------------------------------
(* The state after startup *)

Init ==
    /\ userContexts = [s \in Sockets |-> Absent]
    /\ now = 0
    /\ conn = [s \in Sockets |-> "new"]
    /\ evictTimer = [s \in Sockets |-> NoTimer]
    /\ sweepDue = HOUR
    /\ pending = <<>>
    /\ emitted = <<>>
    /\ lastEvent = [type |-> "listen"]
    /\ pushed = [s \in Sockets |-> <<>>]

----------------------------------------------------------------------------
(* Handlers *)

\* io.on('connection')
Connect(s) ==
    /\ conn[s] = "new"
    /\ conn' = [conn EXCEPT ![s] = "open"]
    /\ emitted' = <<>>
    /\ lastEvent' = [type |-> "connection", sock |-> s]
    /\ UNCHANGED <<userContexts, now, evictTimer, sweepDue, pending, pushed>>

\* socket.on('transcript'), up to its await
Transcript(s, data) ==
    /\ conn[s] = "open"
    /\ lastEvent' = [type |-> "transcript", sock |-> s, data |-> data]
    /\ UNCHANGED <<now, conn, evictTimer, sweepDue>>
    /\ IF "undefined" \in DOMAIN data \/ ~HasText(data)
       THEN /\ emitted' = <<>>
            /\ UNCHANGED <<userContexts, pending, pushed>>
       ELSE IF PushThrows(userContexts, s)
       THEN /\ emitted' = <<handleAIError(TypeErrorPush, s)>>
            /\ UNCHANGED <<userContexts, pending, pushed>>
       ELSE LET store == manageConversationHistory(
                             userContexts, s, trim(data.final), "user", now)
                messages == store[s].items
                selectedModel == SelectedModel(data)
                looked == LookupModel(selectedModel)
            IN  /\ userContexts' = store
                /\ pushed' = [pushed EXCEPT ![s] =
                                 Append(@, MessageWithTime("user", trim(data.final), now))]
                /\ \E seen \in SUBSET LiveCalls(pending, s) :
                      LET calls == Mutated(pending, s, seen, messages)
                      IN  IF looked.kind = "undefined"
                          THEN /\ emitted' = <<handleAIError(TypeErrorProvider, s)>>
                               /\ pending' = calls
                          ELSE /\ emitted' = <<>>
                               /\ pending' = Append(calls,
                                      ProviderCall(s, data.final, messages,
                                                   selectedModel, looked))

\* a handler that calls the provider again when a call fails
ProviderRespondsWithRetry(i, resp) ==
    /\ i \in 1..Len(pending)
    /\ LET call == pending[i]
           outcome == Outcome(call, resp)
       IN  /\ emitted' = IF outcome.ok
                         THEN <<GptResponse(call.sock, outcome.text, call.model)>>
                         ELSE <<handleAIError(outcome.error, call.sock)>>
           /\ lastEvent' = [type |-> "provider-response", sock |-> call.sock,
                            response |-> resp, ok |-> outcome.ok]
           /\ pending' = IF outcome.ok THEN RemoveAt(pending, i) ELSE pending
    /\ UNCHANGED <<userContexts, now, conn, evictTimer, sweepDue, pushed>>

\* a handler whose catch block falls through to the emit of the reply
ProviderRespondsEmitsBoth(i, resp) ==
    /\ i \in 1..Len(pending)
    /\ LET call == pending[i]
           outcome == Outcome(call, resp)
       IN  /\ emitted' = IF outcome.ok
                         THEN <<GptResponse(call.sock, outcome.text, call.model)>>
                         ELSE <<handleAIError(outcome.error, call.sock),
                                GptResponse(call.sock, <<>>, call.model)>>
           /\ lastEvent' = [type |-> "provider-response", sock |-> call.sock,
                            response |-> resp, ok |-> outcome.ok]
    /\ pending' = RemoveAt(pending, i)
    /\ UNCHANGED <<userContexts, now, conn, evictTimer, sweepDue, pushed>>

\* socket.on('transcript'), from its await on: the i-th call comes back
ProviderResponds(i, resp) ==
    /\ i \in 1..Len(pending)
    /\ LET call == pending[i]
           outcome == Outcome(call, resp)
       IN  /\ emitted' = IF outcome.ok
                         THEN <<GptResponse(call.sock, outcome.text, call.model)>>
                         ELSE <<handleAIError(outcome.error, call.sock)>>
           /\ lastEvent' = [type |-> "provider-response", sock |-> call.sock,
                            response |-> resp, ok |-> outcome.ok]
    /\ pending' = RemoveAt(pending, i)
    /\ UNCHANGED <<userContexts, now, conn, evictTimer, sweepDue, pushed>>

\* socket.on('reset-context')
ResetContext(s) ==
    /\ conn[s] = "open"
    /\ userContexts' = MapDelete(userContexts, s)
    /\ pushed' = Forget(pushed, userContexts')
    /\ pending' = Detached(pending, userContexts')
    /\ emitted' = <<ContextReset(s)>>
    /\ lastEvent' = [type |-> "reset-context", sock |-> s]
    /\ UNCHANGED <<now, conn, evictTimer, sweepDue>>

\* savedContext && typeof savedContext === 'object'
Accepted(savedContext) == savedContext.jsType = "object"

\* {...existingContext, userPreferences: savedContext}
MergedContext(store, s, savedContext) ==
    ObjectCtx(IF store[s] = Absent THEN <<>> ELSE store[s].items,
              savedContext.value)

\* socket.on('load-context')
LoadContext(s, savedContext) ==
    /\ conn[s] = "open"
    /\ userContexts' = IF Accepted(savedContext)
                       THEN [userContexts EXCEPT
                                ![s] = MergedContext(userContexts, s, savedContext)]
                       ELSE userContexts
    /\ pending' = Detached(pending, userContexts')
    /\ emitted' = <<>>
    /\ lastEvent' = [type |-> "load-context", sock |-> s,
                     savedContext |-> savedContext]
    /\ UNCHANGED <<now, conn, evictTimer, sweepDue, pushed>>

\* a 'disconnect' handler that deletes the context at once
DisconnectDeletesNow(s) ==
    /\ conn[s] = "open"
    /\ conn' = [conn EXCEPT ![s] = "closed"]
    /\ userContexts' = MapDelete(userContexts, s)
    /\ pushed' = Forget(pushed, userContexts')
    /\ pending' = Detached(pending, userContexts')
    /\ emitted' = <<>>
    /\ lastEvent' = [type |-> "disconnect", sock |-> s]
    /\ UNCHANGED <<now, evictTimer, sweepDue>>

\* socket.on('disconnect'): arms the one-hour timer
Disconnect(s) ==
    /\ conn[s] = "open"
    /\ conn' = [conn EXCEPT ![s] = "closed"]
    /\ evictTimer' = [evictTimer EXCEPT ![s] = now + HOUR]
    /\ emitted' = <<>>
    /\ lastEvent' = [type |-> "disconnect", sock |-> s]
    /\ UNCHANGED <<userContexts, now, sweepDue, pending, pushed>>

\* the setTimeout callback of 'disconnect'
EvictionFires(s) ==
    /\ evictTimer[s] # NoTimer
    /\ now >= evictTimer[s]
    /\ userContexts' = MapDelete(userContexts, s)
    /\ pushed' = Forget(pushed, userContexts')
    /\ pending' = Detached(pending, userContexts')
    /\ evictTimer' = [evictTimer EXCEPT ![s] = NoTimer]
    /\ emitted' = <<>>
    /\ lastEvent' = [type |-> "eviction", sock |-> s]
    /\ UNCHANGED <<now, conn, sweepDue>>

\* lastMessage && (now - lastMessage.timestamp) > hour; a stored object has
\* no length, so its context[context.length - 1] is undefined
IsStale(context, t) ==
    /\ context.kind = "array"
    /\ Len(context.items) > 0
    /\ "timestamp" \in DOMAIN context.items[Len(context.items)]
    /\ t - context.items[Len(context.items)].timestamp > HOUR

\* the setInterval callback
Sweep ==
    /\ now >= sweepDue
    /\ userContexts' = [s \in Sockets |->
                           IF userContexts[s] # Absent /\ IsStale(userContexts[s], now)
                           THEN Absent
                           ELSE userContexts[s]]
    /\ pushed' = Forget(pushed, userContexts')
    /\ pending' = Detached(pending, userContexts')
    /\ sweepDue' = now + HOUR
    /\ emitted' = <<>>
    /\ lastEvent' = [type |-> "sweep"]
    /\ UNCHANGED <<now, conn, evictTimer>>

\* time passes, for one staleness period and a little more
Tick(d) ==
    /\ (now + d) \div HOUR <= 1
    /\ (now + d) % HOUR <= MaxMs
    /\ now' = now + d
    /\ emitted' = <<>>
    /\ lastEvent' = [type |-> "tick"]
    /\ UNCHANGED <<userContexts, conn, evictTimer, sweepDue, pending, pushed>>

----------------------------------------------------------------------------
(* Specifications *)

\* a transcript that pushes onto a context stays within the bounds
MayPush(s, data, cap) ==
    (HasText(data) /\ ~PushThrows(userContexts, s)) =>
        /\ Len(pending) < MaxPending
        /\ Len(pushed[s]) < cap

\* every handler, the clock standing still
Next ==
    \/ \E s \in Sockets : Connect(s)
    \/ \E s \in Sockets, data \in TranscriptInputs :
          MayPush(s, data, MaxAppends) /\ Transcript(s, data)
    \/ \E i \in 1..MaxPending, resp \in Responses : ProviderResponds(i, resp)
    \/ \E s \in Sockets : ResetContext(s)
    \/ \E s \in Sockets, savedContext \in LoadInputs : LoadContext(s, savedContext)
    \/ \E s \in Sockets : Disconnect(s)

Spec == Init /\ [][Next]_vars

\* the clock, the eviction timers and the cleanup interval, with clients that
\* send one transcript at a time
NextTimers ==
    \/ \E s \in Sockets : Connect(s)
    \/ \E s \in Sockets, data \in TimerInputs :
          /\ pending = <<>>
          /\ MayPush(s, data, MaxAppends)
          /\ Transcript(s, data)
    \/ ProviderResponds(1, [kind |-> "ok", text |-> Reply])
    \/ \E s \in Sockets : ResetContext(s)
    \/ \E s \in Sockets : LoadContext(s, [jsType |-> "object", value |-> "theme=dark"])
    \/ \E s \in Sockets : Disconnect(s)
    \/ \E s \in Sockets : EvictionFires(s)
    \/ Sweep
    \/ \E d \in TickSteps : Tick(d)

SpecTimers == Init /\ [][NextTimers]_vars

\* one connection whose client sends one transcript at a time
NextWindow ==
    \/ Connect("s1")
    \/ \E data \in WindowInputs :
          /\ pending = <<>>
          /\ MayPush("s1", data, WindowAppends)
          /\ Transcript("s1", data)
    \/ ProviderResponds(1, [kind |-> "ok", text |-> Reply])
    \/ ResetContext("s1")

SpecWindow == Init /\ [][NextWindow]_vars

\* one connection from its opening to the discarding of its context
NextEviction ==
    \/ Connect("s1")
    \/ \E data \in TimerInputs :
          /\ pending = <<>>
          /\ MayPush("s1", data, MaxAppends)
          /\ Transcript("s1", data)
    \/ ProviderResponds(1, [kind |-> "ok", text |-> Reply])
    \/ ResetContext("s1")
    \/ LoadContext("s1", [jsType |-> "object", value |-> "theme=dark"])
    \/ Disconnect("s1")
    \/ EvictionFires("s1")
    \/ Sweep
    \/ \E d \in TickSteps : Tick(d)

\* the same with a running event loop: time passes, and a timer that is due
\* has its callback run
SpecEviction ==
    /\ Init /\ [][NextEviction]_vars
    /\ WF_vars(\E d \in TickSteps : Tick(d))
    /\ WF_vars(EvictionFires("s1"))

\* clients that send their next event without waiting for the reply: up to
\* RaceCalls provider calls are awaited at a time
NextRace ==
    \/ Connect("s1")
    \/ \E data \in RaceInputs :
          /\ ~PushThrows(userContexts, "s1") =>
                 /\ Len(pending) < RaceCalls
                 /\ Len(pushed["s1"]) < MaxAppends
          /\ Transcript("s1", data)
    \/ \E i \in 1..RaceCalls, resp \in RaceResponses : ProviderResponds(i, resp)
    \/ ResetContext("s1")
    \/ LoadContext("s1", [jsType |-> "object", value |-> "theme=dark"])
    \/ Connect("s2")
    \/ /\ Len(pending) < RaceCalls
       /\ userContexts["s2"] = Absent
       /\ Transcript("s2", [final |-> <<"a">>])

SpecRace == Init /\ [][NextRace]_vars

\* two connections from their opening to the discarding of their contexts,
\* the clock moving by whole hours
NextIsolation ==
    \/ \E s \in Sockets : Connect(s)
    \/ \E s \in Sockets, data \in TimerInputs :
          MayPush(s, data, MaxAppends) /\ Transcript(s, data)
    \/ \E i \in 1..MaxPending, resp \in RaceResponses : ProviderResponds(i, resp)
    \/ \E s \in Sockets : ResetContext(s)
    \/ \E s \in Sockets : LoadContext(s, [jsType |-> "object", value |-> "theme=dark"])
    \/ \E s \in Sockets : Disconnect(s)
    \/ \E s \in Sockets : EvictionFires(s)
    \/ Tick(HOUR)

SpecIsolation == Init /\ [][NextIsolation]_vars

----------------------------------------------------------------------------
(* Properties *)

Turns(context) == IF context = Absent THEN <<>> ELSE context.items

LastN(seq, n) ==
    IF Len(seq) <= n THEN seq ELSE SubSeq(seq, Len(seq) - n + 1, Len(seq))

\* white space and line terminators
BlankChars ==
    {" ", "\t", "\n", "\r", "\f", "", " ", "﻿", " "}

\* text that is missing, empty or whitespace only
Blank(data) ==
    \/ "final" \notin DOMAIN data
    \/ \A i \in 1..Len(data.final) : data.final[i] \in BlankChars

\* a text without its leading and trailing whitespace
Stripped(text) ==
    LET keep == {i \in 1..Len(text) : text[i] \notin BlankChars}
    IN  IF keep = {} THEN <<>>
        ELSE SubSeq(text,
                    CHOOSE i \in keep : \A j \in keep : i <= j,
                    CHOOSE i \in keep : \A j \in keep : i >= j)

\* C1: after a gpt-response for a transcript, the connection's context holds
\* the reply as an assistant turn placed after a user turn.
C1_ReplyRecorded ==
    \A k \in 1..Len(emitted) :
        emitted[k].event = "gpt-response" =>
            LET context == userContexts[emitted[k].to]
            IN  /\ context # Absent
                /\ \E j \in 2..Len(context.items) :
                      /\ context.items[j].role = "assistant"
                      /\ context.items[j].content = emitted[k].payload.text
                      /\ context.items[j - 1].role = "user"

\* C2: every context in the store is an ordered sequence of turns holding
\* exactly one system turn, at index 0.
C2_OneSystemTurnAtHead ==
    \A s \in Sockets :
        userContexts[s] # Absent =>
            /\ userContexts[s].kind = "array"
            /\ Len(userContexts[s].items) >= 1
            /\ \A k \in 1..Len(userContexts[s].items) :
                  (userContexts[s].items[k].role = "system") <=> (k = 1)

\* C3: under any sequence of appends the first turn is the system turn, at
\* most 10 other turns are held, and they are the last 10 pushed, in order
\* (so exactly 10 once more than 10 were pushed).
C3_WindowKeepsLastTen ==
    \A s \in Sockets :
        userContexts[s] # Absent =>
            /\ Head(userContexts[s].items) = SystemTurn
            /\ Len(Tail(userContexts[s].items)) <= 10
            /\ Tail(userContexts[s].items) = LastN(pushed[s], 10)
            /\ Len(pushed[s]) > 10 => Len(Tail(userContexts[s].items)) = 10

\* C3 witness: twelve turns were pushed, the two oldest are gone, and the
\* pushed turns are not all alike.
C3_Witness ==
    /\ Len(pushed["s1"]) = 12
    /\ Len(userContexts["s1"].items) = 11
    /\ userContexts["s1"].items[2] = pushed["s1"][3]
    /\ pushed["s1"][1].content # pushed["s1"][3].content
    /\ pushed["s1"][3].content # pushed["s1"][12].content

\* C4: load-context with an object stores it beside the turn sequence, which
\* is unchanged; a later non-empty transcript with a configured model still
\* appends its user turn and calls the provider; any other payload leaves the
\* store unchanged.
C4_LoadKeepsTurnSequence ==
    [][\A s \in Sockets :
        /\ (lastEvent'.type = "load-context" /\ lastEvent'.sock = s) =>
              IF lastEvent'.savedContext.jsType = "object"
              THEN /\ userContexts'[s] # Absent
                   /\ Turns(userContexts'[s]) = Turns(userContexts[s])
                   /\ userContexts'[s].userPreferences = lastEvent'.savedContext.value
              ELSE userContexts' = userContexts
        /\ ( /\ lastEvent'.type = "transcript" /\ lastEvent'.sock = s
             /\ ~Blank(lastEvent'.data)
             /\ SelectedModel(lastEvent'.data) \in DOMAIN AI_MODELS
             /\ userContexts[s] # Absent
             /\ "userPreferences" \in DOMAIN userContexts[s] ) =>
              /\ Len(Turns(userContexts'[s])) = Len(Turns(userContexts[s])) + 1
              /\ Turns(userContexts'[s])[Len(Turns(userContexts'[s]))].role = "user"
              /\ Len(pending') = Len(pending) + 1
      ]_vars

\* C5: reset-context discards the connection's context, whatever it is, and
\* emits one context-reset; an append to a connection with no context (the
\* state a reset leaves) yields the system turn followed by the new turn.
C5_ResetThenAppend ==
    [][\A s \in Sockets :
        /\ (lastEvent'.type = "reset-context" /\ lastEvent'.sock = s) =>
              /\ userContexts'[s] = Absent
              /\ emitted' = <<ContextReset(s)>>
        /\ ( /\ lastEvent'.type = "transcript" /\ lastEvent'.sock = s
             /\ ~Blank(lastEvent'.data)
             /\ userContexts[s] = Absent ) =>
              /\ userContexts'[s].kind = "array"
              /\ Len(userContexts'[s].items) = 2
              /\ userContexts'[s].items[1] = SystemTurn
              /\ userContexts'[s].items[2].role = "user"
              /\ userContexts'[s].items[2].content = Stripped(lastEvent'.data.final)
      ]_vars

\* C5 witness: a reset has just discarded the context of a connection that
\* had one (one of its provider calls is still awaited).
C5_Witness ==
    /\ lastEvent.type = "reset-context"
    /\ userContexts[lastEvent.sock] = Absent
    /\ emitted = <<ContextReset(lastEvent.sock)>>
    /\ Len(pending) = 1
    /\ pending[1].sock = lastEvent.sock

\* the last turn of a context carries a time more than one hour before t
LastTurnOlderThanHour(context, t) ==
    /\ Len(context.items) > 0
    /\ "timestamp" \in DOMAIN context.items[Len(context.items)]
    /\ t - context.items[Len(context.items)].timestamp > 3600000

\* C6: a sweep removes every context whose last turn is more than one hour
\* old and leaves every other context as it is.
C6_SweepRemovesExactlyStale ==
    [][lastEvent'.type = "sweep" =>
        \A s \in Sockets :
            userContexts[s] # Absent =>
                IF LastTurnOlderThanHour(userContexts[s], now)
                THEN userContexts'[s] = Absent
                ELSE userContexts'[s] = userContexts[s]
      ]_vars

\* C7: a transcript whose text is missing, empty or whitespace only changes
\* no context, starts no provider call and emits nothing.
C7_BlankTranscriptNoEffect ==
    [][(lastEvent'.type = "transcript" /\ Blank(lastEvent'.data)) =>
        /\ userContexts' = userContexts
        /\ pending' = pending
        /\ emitted' = <<>>
      ]_vars

\* C7 witness: a whitespace-only transcript was handled for a connection
\* that has no context, and nothing is awaited or emitted.
C7_Witness ==
    /\ lastEvent.type = "transcript"
    /\ "final" \in DOMAIN lastEvent.data
    /\ Len(lastEvent.data.final) > 0
    /\ Blank(lastEvent.data)
    /\ userContexts[lastEvent.sock] = Absent
    /\ pending = <<>>
    /\ emitted = <<>>

\* C8: every turn of every request sent to a provider has the fields role
\* and content and no other.
C8_OnlyRoleAndContentSent ==
    \A i \in 1..Len(pending) :
        \A k \in 1..Len(pending[i].request.messages) :
            DOMAIN pending[i].request.messages[k] = {"role", "content"}

\* C9: a transcript that starts a provider call has its user turn recorded as
\* the last turn; when the call fails the context is left as it is (the user
\* turn stays, no assistant turn is added), exactly one event is emitted, an
\* error to that connection, and no further call is started.
C9_FailureKeepsUserTurn ==
    [][\A s \in Sockets :
        /\ ( /\ lastEvent'.type = "transcript" /\ lastEvent'.sock = s
             /\ Len(pending') = Len(pending) + 1 ) =>
              LET items == userContexts'[s].items
              IN  /\ items[Len(items)].role = "user"
                  /\ items[Len(items)].content = Stripped(lastEvent'.data.final)
                  /\ pending'[Len(pending')].sock = s
        /\ ( /\ lastEvent'.type = "provider-response" /\ lastEvent'.sock = s
             /\ lastEvent'.response.kind # "ok" ) =>
              /\ userContexts' = userContexts
              /\ Len(emitted') = 1
              /\ emitted'[1].to = s
              /\ emitted'[1].event = "error"
              /\ Len(pending') = Len(pending) - 1
      ]_vars

\* C9 witness: a provider call of a connection has just failed, its error
\* event is out, and the connection's context still ends with the user turn.
C9_Witness ==
    /\ lastEvent.type = "provider-response"
    /\ lastEvent.response.kind = "rejected"
    /\ Len(emitted) = 1
    /\ emitted[1].event = "error"
    /\ userContexts[lastEvent.sock] # Absent
    /\ userContexts[lastEvent.sock].kind = "array"
    /\ userContexts[lastEvent.sock].items[2].role = "user"
    /\ Len(userContexts[lastEvent.sock].items) = 2

\* C10: the error event of a rejected call is the one any failure with the
\* same status and code produces, whatever its raw message.
C10_ErrorEventIgnoresRawText ==
    [][(lastEvent'.type = "provider-response" /\ lastEvent'.response.kind = "rejected") =>
        \A other \in RawErrors :
            ( /\ other.status = lastEvent'.response.error.status
              /\ other.code = lastEvent'.response.error.code ) =>
                emitted' = <<handleAIError(other, lastEvent'.sock)>>
      ]_vars

\* the errors the handlers raise themselves carry no status and no code
RaisedError ==
    IF lastEvent.type = "provider-response" /\ lastEvent.response.kind = "rejected"
    THEN lastEvent.response.error
    ELSE [status |-> NoStatus, code |-> NoCode]

\* C11: the message of every emitted error event is the rate-limit message
\* when the failure has status 429, otherwise the unable-to-connect message
\* when its code is ECONNREFUSED, otherwise the generic message; it is never
\* the text of the exception.
C11_ErrorMessageIsOneOfThree ==
    \A k \in 1..Len(emitted) :
        emitted[k].event = "error" =>
            /\ emitted[k].payload.message \in
                   {RateLimitMessage, ConnectMessage, GenericMessage}
            /\ (RaisedError.status = 429) =>
                   emitted[k].payload.message =
                       "Rate limit exceeded. Please try again in a moment."
            /\ (RaisedError.status # 429 /\ RaisedError.code = "ECONNREFUSED") =>
                   emitted[k].payload.message =
                       "Unable to connect to AI service. Please try again later."
            /\ (RaisedError.status # 429 /\ RaisedError.code # "ECONNREFUSED") =>
                   emitted[k].payload.message =
                       "An error occurred while processing your request."
            /\ \A e \in RawErrors : emitted[k].payload.message # e.message

\* a failure with status 429 and code ECONNREFUSED was reported as a rate limit
C11_Witness ==
    /\ lastEvent.type = "provider-response"
    /\ lastEvent.response.kind = "rejected"
    /\ lastEvent.response.error.status = 429
    /\ lastEvent.response.error.code = "ECONNREFUSED"
    /\ Len(emitted) = 1
    /\ emitted[1].event = "error"
    /\ emitted[1].payload.message = RateLimitMessage

\* C12: a provider response without choices, or with no choices[0], to a call
\* for a model of the configuration table ends in a handled failure: the
\* handler finishes, no gpt-response is emitted, and one error event with the
\* generic message goes to the caller; the Groq adapter reports it as an
\* invalid response.
C12_MissingChoicesIsHandledFailure ==
    [][\A i \in 1..Len(pending) :
          ( /\ lastEvent'.type = "provider-response"
            /\ lastEvent'.response.kind \in {"no_choices", "empty_choices"}
            /\ lastEvent'.sock = pending[i].sock
            /\ pending' = RemoveAt(pending, i)
            /\ pending[i].model \in DOMAIN AI_MODELS )
          => /\ ~ lastEvent'.ok
             /\ Len(emitted') = 1
             /\ emitted'[1].event = "error"
             /\ emitted'[1].to = pending[i].sock
             /\ emitted'[1].payload.message =
                    "An error occurred while processing your request."
             /\ (pending[i].provider = "groq") =>
                    emitted'[1].payload.details = "Invalid response from GROQ API"
      ]_vars

\* a Groq call came back without choices and was reported as an invalid response
C12_Witness ==
    /\ lastEvent.type = "provider-response"
    /\ lastEvent.response.kind = "no_choices"
    /\ pending = <<>>
    /\ Len(emitted) = 1
    /\ emitted[1].event = "error"
    /\ emitted[1].payload.message = GenericMessage
    /\ emitted[1].payload.details = InvalidGroqResponse.message

\* C13: a call is started for the connection that sent the transcript, for
\* the payload's model when it has one and for 'llama-3.1-70b-versatile'
\* otherwise, and with the provider that model's configuration names; when the
\* call succeeds, one gpt-response goes to that connection only, with the
\* provider's text and that model id.
C13_ReplyToSenderWithModelUsed ==
    [][/\ ( /\ lastEvent'.type = "transcript"
            /\ Len(pending') = Len(pending) + 1 )
          => LET call == pending'[Len(pending')]
                 data == lastEvent'.data
             IN  /\ call.sock = lastEvent'.sock
                 /\ call.model =
                        IF "model" \in DOMAIN data /\ data.model # ""
                        THEN data.model
                        ELSE "llama-3.1-70b-versatile"
                 /\ (call.model \in DOMAIN AI_MODELS) =>
                        call.provider = AI_MODELS[call.model].provider
       /\ \A i \in 1..Len(pending) :
             ( /\ lastEvent'.type = "provider-response"
               /\ lastEvent'.response.kind = "ok"
               /\ lastEvent'.sock = pending[i].sock
               /\ pending' = RemoveAt(pending, i) )
             => emitted' = <<[to |-> pending[i].sock,
                              event |-> "gpt-response",
                              payload |-> [text |-> lastEvent'.response.text,
                                           model |-> pending[i].model]]>>
      ]_vars

\* the second connection asked for gpt-3.5-turbo-16k and was answered by OpenAI
C13_Witness ==
    /\ lastEvent.type = "provider-response"
    /\ lastEvent.sock = "s2"
    /\ lastEvent.ok
    /\ Len(emitted) = 1
    /\ emitted[1].event = "gpt-response"
    /\ emitted[1].to = "s2"
    /\ emitted[1].payload.text = Reply
    /\ emitted[1].payload.model = "gpt-3.5-turbo-16k"

\* C14: closing a connection removes nothing: it arms a timer for one hour
\* later.  The context of a closed connection, whatever its shape, leaves the
\* store only by the cleanup sweep or by that timer's callback, which runs no
\* earlier than the hour and leaves the context absent; and every timer that
\* falls due within the time the clock covers does run.
C14_EvictedAfterGraceDelay ==
    /\ [][/\ lastEvent'.type = "disconnect" =>
               /\ userContexts' = userContexts
               /\ evictTimer'[lastEvent'.sock] = now + 3600000
          /\ \A s \in Sockets :
                ( /\ conn[s] = "closed"
                  /\ userContexts[s] # Absent
                  /\ userContexts'[s] = Absent )
                => \/ lastEvent'.type = "sweep"
                   \/ /\ lastEvent' = [type |-> "eviction", sock |-> s]
                      /\ evictTimer[s] # NoTimer
                      /\ now >= evictTimer[s]
          /\ lastEvent'.type = "eviction" =>
                userContexts'[lastEvent'.sock] = Absent
         ]_vars
    /\ \A s \in Sockets :
          (evictTimer[s] # NoTimer /\ evictTimer[s] <= HOUR + MaxMs)
              ~> (conn[s] = "closed" /\ evictTimer[s] = NoTimer
                     /\ userContexts[s] = Absent)

\* the object a closed connection had loaded is still stored one hour after
\* the cleanup interval started, its own timer falling due only now
C14_Witness ==
    /\ lastEvent.type = "sweep"
    /\ \E s \in Sockets :
          /\ conn[s] = "closed"
          /\ userContexts[s].kind = "object"
          /\ evictTimer[s] = now
          /\ now = HOUR + 1

\* C15: while a provider call of a connection is awaited, a transcript, a
\* reset-context or a load-context of the same connection leaves its context
\* as it is.
C15_PendingCallFreezesContext ==
    [][\A s \in Sockets :
          ( /\ \E i \in 1..Len(pending) : pending[i].sock = s
            /\ lastEvent'.type \in {"transcript", "reset-context", "load-context"}
            /\ lastEvent'.sock = s )
          => userContexts'[s] = userContexts[s]
      ]_vars

\* the replies among the events of a step
Replies(events) ==
    {k \in 1..Len(events) : events[k].event \in {"gpt-response", "error"}}

\* C17: a transcript with text either fails at once with one error event to
\* its connection or starts one provider call and emits nothing; the call's
\* completion emits exactly one event to that connection, a gpt-response or
\* an error, and ends the call; no other step ends a call or emits a reply,
\* so a call that never completes never produces an event; and an open
\* connection's transcript is handled whatever calls are awaited.
C17_OneEventPerTranscript ==
    /\ [][/\ \A i \in 1..Len(pending) :
                lastEvent'.type # "provider-response" =>
                    /\ Len(pending') >= Len(pending)
                    /\ pending'[i].sock = pending[i].sock
                    /\ pending'[i].final = pending[i].final
          /\ (lastEvent'.type = "transcript" /\ ~Blank(lastEvent'.data)) =>
                \/ /\ Len(pending') = Len(pending) + 1
                   /\ pending'[Len(pending')].sock = lastEvent'.sock
                   /\ pending'[Len(pending')].final = lastEvent'.data.final
                   /\ emitted' = <<>>
                \/ /\ Len(pending') = Len(pending)
                   /\ Len(emitted') = 1
                   /\ emitted'[1].event = "error"
                   /\ emitted'[1].to = lastEvent'.sock
          /\ lastEvent'.type = "provider-response" =>
                /\ \E i \in 1..Len(pending) :
                      /\ pending' = RemoveAt(pending, i)
                      /\ pending[i].sock = lastEvent'.sock
                /\ Len(emitted') = 1
                /\ emitted'[1].to = lastEvent'.sock
                /\ emitted'[1].event =
                       IF lastEvent'.ok THEN "gpt-response" ELSE "error"
          /\ ~ ( \/ lastEvent'.type = "provider-response"
                 \/ lastEvent'.type = "transcript" /\ ~Blank(lastEvent'.data) )
                => /\ Len(pending') = Len(pending)
                   /\ Replies(emitted') = {}
         ]_vars
    /\ [](\A s \in Sockets :
            conn[s] = "open" => ENABLED Transcript(s, [final |-> <<"a">>]))

\* the second connection has its reply while the first connection's call is
\* still awaited
C17_Witness ==
    /\ lastEvent.type = "provider-response"
    /\ lastEvent.sock = "s2"
    /\ Len(emitted) = 1
    /\ emitted[1] = GptResponse("s2", Reply, DefaultModel)
    /\ Len(pending) = 1
    /\ pending[1].sock = "s1"
    /\ pending[1].final = <<" ", "b">>

\* C18: the request of every awaited provider call begins with the system
\* turn, holds at most 11 turns and ends with the user turn of its own
\* transcript, whatever has happened since the call was made.
C18_RequestFixedAtAppend ==
    \A i \in 1..Len(pending) :
        LET messages == pending[i].request.messages
        IN  /\ Len(messages) >= 2
            /\ Len(messages) <= 11
            /\ messages[1].role = "system"
            /\ messages[Len(messages)].role = "user"
            /\ messages[Len(messages)].content = Stripped(pending[i].final)

\* C16: a transcript with text that names a model outside the configuration
\* table starts no provider call and gets no gpt-response: it ends in one
\* error event with the generic message, and its user turn stays the last
\* turn of the context.
C16_UnknownModelIsRejected ==
    [][\A s \in Sockets :
          ( /\ lastEvent'.type = "transcript"
            /\ lastEvent'.sock = s
            /\ ~Blank(lastEvent'.data)
            /\ "model" \in DOMAIN lastEvent'.data
            /\ lastEvent'.data.model # ""
            /\ lastEvent'.data.model \notin DOMAIN AI_MODELS
            /\ userContexts[s].kind # "object" )
          => /\ pending' = pending
             /\ emitted' = <<[to |-> s, event |-> "error",
                              payload |-> emitted'[1].payload]>>
             /\ emitted'[1].payload.message =
                    "An error occurred while processing your request."
             /\ userContexts'[s].kind = "array"
             /\ LET turns == Turns(userContexts'[s])
                IN  /\ turns[Len(turns)].role = "user"
                    /\ turns[Len(turns)].content =
                           Stripped(lastEvent'.data.final)
      ]_vars

\* C19: a connection, transcript, provider reply, reset-context, load-context,
\* disconnect or delayed eviction of one connection leaves the context of
\* every other connection as it is, present or absent, and every event the
\* step emits goes to the connection the step belongs to.
C19_ContextsAreIsolated ==
    [][\A a \in Sockets :
          ( /\ lastEvent'.type \in {"connection", "transcript", "provider-response",
                                    "reset-context", "load-context",
                                    "disconnect", "eviction"}
            /\ lastEvent'.sock = a )
          => /\ \A b \in Sockets \ {a} : userContexts'[b] = userContexts[b]
             /\ \A k \in 1..Len(emitted') : emitted'[k].to = a
      ]_vars

\* the first connection's context was evicted and the second connection's
\* turns are still stored
C19_Witness ==
    /\ lastEvent = [type |-> "eviction", sock |-> "s1"]
    /\ userContexts["s1"] = Absent
    /\ userContexts["s2"].kind = "array"
    /\ Len(userContexts["s2"].items) = 3

====
